---- MODULE Spec2Model ----
(***************************************************************************)
(* movAI (movie_lookup.py): the streaming-offer normalizer                  *)
(* parse_streaming, the plot truncator truncate_plot, and the Streamlit     *)
(* session flow (search, Select, Back, detail view).                        *)
(*                                                                          *)
(* Conventions of the model                                                 *)
(*  - Python None is a record with kind "none"; an optional value is a      *)
(*    record [kind, v].                                                     *)
(*  - A Unix timestamp is the number of a day of the year 2026 in local     *)
(*    time (1 = January 1st); a price amount is counted in cents.           *)
(*  - A text is a sequence of one-character strings.                        *)
(*  - A call that raises yields a record with raised = TRUE.                *)
(***************************************************************************)
EXTENDS Integers, Sequences, FiniteSets, TLC

VARIABLES
    data,            \* parse_streaming: the payload (absent, or the "us" option list)
    now,             \* parse_streaming: datetime.now()
    results,         \* parse_streaming: the returned list (or the raise)
    plot,            \* truncate_plot: argument plot
    max_sentences,   \* truncate_plot: argument max_sentences
    truncated,       \* truncate_plot: the returned text
    search_results,  \* st.session_state.search_results
    selected_id,     \* st.session_state.selected_id
    search_query,    \* st.session_state.search_query
    omdb_key,        \* OMDB_API_KEY is set
    pc,              \* position of the running script in the detail view
    omdb,            \* detail view: the metadata record fetched in this run
    streaming_data,  \* detail view: the streaming payload fetched in this run
    stream_calls,    \* detail view: calls of fetch_streaming in this run
    outcome          \* detail view: what this run rendered

vars == <<data, now, results, plot, max_sentences, truncated,
          search_results, selected_id, search_query, omdb_key,
          pc, omdb, streaming_data, stream_calls, outcome>>

parseVars == <<data, now, results>>
plotVars == <<plot, max_sentences, truncated>>
appVars == <<search_results, selected_id, search_query, omdb_key,
             pc, omdb, streaming_data, stream_calls, outcome>>

----------------------------------------------------------------------------
(* Bounds of the model *)

MaxOffers == 3
MaxPlotLen == 8
MaxSentences == 3
MaxResults == 2

----------------------------------------------------------------------------
(* Optional values *)

None == [kind |-> "none", v |-> 0]
Some(x) == [kind |-> "some", v |-> x]
\* a value of the wrong type where a timestamp is expected (e.g. a JSON string)
Malformed == [kind |-> "bad", v |-> 0]

----------------------------------------------------------------------------
(* parse_streaming and its helpers *)

\* type_priority with its default: type_priority.get(mtype, 99)
type_priority(mtype) ==
    CASE mtype = "subscription" -> 0
      [] mtype = "free" -> 1
      [] mtype = "ads" -> 2
      [] mtype = "rent" -> 3
      [] mtype = "buy" -> 4
      [] mtype = "addon" -> 5
      [] OTHER -> 99

\* str.capitalize, tabulated for the unrecognized type names of the model
Capitalize(s) ==
    CASE s = "bundle" -> "Bundle"
      [] s = "promo" -> "Promo"
      [] s = "rent_bundle" -> "Rent_bundle"
      [] OTHER -> s

\* label_map.get(mtype, mtype.capitalize())
label_map(mtype) ==
    CASE mtype = "subscription" -> "Subscription"
      [] mtype = "free" -> "Free"
      [] mtype = "ads" -> "Free with Ads"
      [] mtype = "rent" -> "Rent"
      [] mtype = "buy" -> "Buy"
      [] mtype = "addon" -> "Add-on"
      [] OTHER -> Capitalize(mtype)

MonthLen == <<31, 28, 31, 30, 31, 30, 31, 31, 30, 31, 30, 31>>
MonthName == <<"January", "February", "March", "April", "May", "June", "July",
               "August", "September", "October", "November", "December">>

\* datetime.fromtimestamp: <<month, day of month>> of day-of-year d, from month m on
RECURSIVE fromtimestamp(_, _)
fromtimestamp(d, m) ==
    IF m = 12 \/ d <= MonthLen[m] THEN <<m, d>>
    ELSE fromtimestamp(d - MonthLen[m], m + 1)

\* _format_date: "February 3rd, 2026"
format_date(ts) ==
    LET dt == fromtimestamp(ts, 1)
        day == dt[2]
        suffix == IF 11 <= day /\ day <= 13 THEN "th"
                  ELSE CASE day % 10 = 1 -> "st"
                         [] day % 10 = 2 -> "nd"
                         [] day % 10 = 3 -> "rd"
                         [] OTHER -> "th"
    IN MonthName[dt[1]] \o " " \o ToString(day) \o suffix \o ", 2026"

\* f"{price_amount:.2f}" of an amount in cents
Fixed2(cents) ==
    ToString(cents \div 100) \o "." \o
    (IF cents % 100 < 10 THEN "0" ELSE "") \o ToString(cents % 100)

\* price_formatted of a price object (lines 254-260)
price_formatted(price_obj) ==
    IF price_obj.kind = "none" THEN ""
    ELSE IF price_obj.v.currency = "USD"
         THEN "$" \o Fixed2(price_obj.v.amount)
         ELSE Fixed2(price_obj.v.amount) \o " " \o price_obj.v.currency

\* price_amount of a price object (line 255)
price_amount(price_obj) ==
    IF price_obj.kind = "none" THEN None ELSE Some(price_obj.v.amount)

\* `ts and ts > now.timestamp()` for a well-typed ts
IsFuture(ts, t) == ts.kind = "some" /\ ts.v # 0 /\ ts.v > t

\* date_str of one option (lines 262-268); comparing a value of the wrong
\* type with a float raises
date_str(opt, t) ==
    IF opt.availableSince.kind = "bad" THEN [raised |-> TRUE, str |-> ""]
    ELSE IF IsFuture(opt.availableSince, t)
         THEN [raised |-> FALSE, str |-> format_date(opt.availableSince.v)]
    ELSE IF opt.expiresOn.kind = "bad" THEN [raised |-> TRUE, str |-> ""]
    ELSE IF IsFuture(opt.expiresOn, t)
         THEN [raised |-> FALSE, str |-> "until " \o format_date(opt.expiresOn.v)]
    ELSE [raised |-> FALSE, str |-> ""]

\* opt.get("service", {}).get("name", "Unknown")
PlatformOf(opt) == IF opt.service.kind = "none" THEN "Unknown" ELSE opt.service.v

\* BestIndex with the lookup lost: every offer opens a new entry
BestIndexAlwaysNew(best, platform) == 0

\* best.get(platform): index of the platform's entry in the dict, 0 if none
BestIndex(best, platform) ==
    IF \E i \in 1..Len(best) : best[i].platform = platform
    THEN CHOOSE i \in 1..Len(best) : best[i].platform = platform
    ELSE 0

\* Replaces without the branch `elif prio < current[0]`
ReplacesIgnoringRank(prio, amount, current) ==
    /\ prio = current.prio
    /\ amount.kind = "some"
    /\ \/ current.price_amount.kind = "none"
       \/ amount.v < current.price_amount.v

\* Replaces without the test `price_amount is not None`
ReplacesUnpriced(prio, amount, current) ==
    \/ prio < current.prio
    \/ /\ prio = current.prio
       /\ \/ amount.kind = "none"
          \/ current.price_amount.kind = "none"
          \/ amount.v < current.price_amount.v

\* the replacement test of lines 272-278: does the new tuple replace current?
Replaces(prio, amount, current) ==
    \/ prio < current.prio
    \/ /\ prio = current.prio
       /\ amount.kind = "some"
       /\ \/ current.price_amount.kind = "none"
          \/ amount.v < current.price_amount.v

\* LoopBody that keeps the date of the replaced tuple
LoopBodyStaleDate(best, opt, t) ==
    IF opt.type = "" THEN [raised |-> FALSE, best |-> best]
    ELSE
      LET platform == PlatformOf(opt)
          d == date_str(opt, t)
          i == BestIndex(best, platform)
          new == [platform |-> platform,
                  prio |-> type_priority(opt.type),
                  price_amount |-> price_amount(opt.price),
                  price_formatted |-> price_formatted(opt.price),
                  mtype |-> opt.type,
                  date_str |-> IF i = 0 THEN d.str ELSE best[i].date_str]
      IN IF d.raised THEN [raised |-> TRUE, best |-> best]
         ELSE IF i = 0 THEN [raised |-> FALSE, best |-> Append(best, new)]
         ELSE IF Replaces(new.prio, new.price_amount, best[i])
              THEN [raised |-> FALSE, best |-> [best EXCEPT ![i] = new]]
         ELSE [raised |-> FALSE, best |-> best]

\* one iteration of the loop over options (lines 248-278); best is the dict
\* as the sequence of its items in insertion order
LoopBody(best, opt, t) ==
    IF opt.type = "" THEN [raised |-> FALSE, best |-> best]
    ELSE
      LET platform == PlatformOf(opt)
          d == date_str(opt, t)
          new == [platform |-> platform,
                  prio |-> type_priority(opt.type),
                  price_amount |-> price_amount(opt.price),
                  price_formatted |-> price_formatted(opt.price),
                  mtype |-> opt.type,
                  date_str |-> d.str]
          i == BestIndex(best, platform)
      IN IF d.raised THEN [raised |-> TRUE, best |-> best]
         ELSE IF i = 0 THEN [raised |-> FALSE, best |-> Append(best, new)]
         ELSE IF Replaces(new.prio, new.price_amount, best[i])
              THEN [raised |-> FALSE, best |-> [best EXCEPT ![i] = new]]
         ELSE [raised |-> FALSE, best |-> best]

\* the loop over options[1..n], from the empty dict
RECURSIVE Loop(_, _, _)
Loop(options, n, t) ==
    IF n = 0 THEN [raised |-> FALSE, best |-> <<>>]
    ELSE LET prev == Loop(options, n - 1, t)
         IN IF prev.raised THEN prev ELSE LoopBody(prev.best, options[n], t)

\* list.insert keeping the order stable: e goes after every item whose key is
\* not larger
RECURSIVE InsertStable(_, _)
InsertStable(sorted, e) ==
    IF sorted = <<>> THEN <<e>>
    ELSE IF e.prio < Head(sorted).prio THEN <<e>> \o sorted
    ELSE <<Head(sorted)>> \o InsertStable(Tail(sorted), e)

\* sorted(best, key=lambda p: best[p][0]) (line 289): a stable sort of the
\* dict's items by prio
RECURSIVE SortedByPrio(_)
SortedByPrio(best) ==
    IF best = <<>> THEN <<>>
    ELSE InsertStable(SortedByPrio(SubSeq(best, 1, Len(best) - 1)), best[Len(best)])

\* the dict appended to results for one platform (lines 290-297)
ResultEntry(b) ==
    [platform |-> b.platform,
     type |-> b.mtype,
     label |-> label_map(b.mtype),
     price |-> b.price_formatted,
     date |-> b.date_str]

\* parse_streaming(data) at datetime.now() = t
parse_streaming(d, t) ==
    IF d.kind = "none" \/ d.v = <<>> THEN [raised |-> FALSE, list |-> <<>>]
    ELSE LET l == Loop(d.v, Len(d.v), t)
         IN IF l.raised THEN [raised |-> TRUE, list |-> <<>>]
            ELSE LET s == SortedByPrio(l.best)
                 IN [raised |-> FALSE, list |-> [i \in 1..Len(s) |-> ResultEntry(s[i])]]

----------------------------------------------------------------------------
(* Inputs of parse_streaming *)

Usd(cents) == Some([amount |-> cents, currency |-> "USD"])
Eur(cents) == Some([amount |-> cents, currency |-> "EUR"])

\* raw offers that differ in platform, type and price and carry no dates
SelectOffers ==
    [service : {Some("Netflix"), Some("Hulu"), None},
     type : {"", "subscription", "rent", "bundle"},
     price : {None, Usd(199), Usd(399)},
     availableSince : {None},
     expiresOn : {None}]

\* raw offers of one platform that differ in type, price and time window
DatedOffers ==
    [service : {Some("Netflix")},
     type : {"rent", "bundle", "promo"},
     price : {None, Eur(199)},
     availableSince : {None, Some(33)},
     expiresOn : {None, Some(43)}]

\* datetime.now() before, at and after the timestamps of DatedOffers
Nows == {32, 33, 43}

\* d is a payload: no data, or a "us" list of at most MaxOffers offers
IsPayload(d, offers) ==
    \/ d = None
    \/ \E n \in 0..MaxOffers : \E l \in [1..n -> offers] : d = Some(l)

NotCalled == [called |-> FALSE, raised |-> FALSE, list |-> <<>>]

\* the variables of the other parts of the program, at rest
PlotIdle == plot = <<>> /\ max_sentences = 1
            /\ truncated = [called |-> FALSE, text |-> <<>>]
ParseIdle == data = None /\ now = 0 /\ results = NotCalled
AppIdle == /\ search_results = <<>>
           /\ selected_id = None
           /\ search_query = ""
           /\ omdb_key = FALSE
           /\ pc = "idle"
           /\ omdb = None
           /\ streaming_data = None
           /\ stream_calls = 0
           /\ outcome = "none"

InitSelect ==
    /\ IsPayload(data, SelectOffers)
    /\ now = 32
    /\ results = NotCalled
    /\ PlotIdle /\ AppIdle

InitDated ==
    /\ IsPayload(data, DatedOffers)
    /\ now \in Nows
    /\ results = NotCalled
    /\ PlotIdle /\ AppIdle

\* one call of parse_streaming(data)
Parse ==
    /\ ~results.called
    /\ results' = [called |-> TRUE] @@ parse_streaming(data, now)
    /\ UNCHANGED <<data, now>>
    /\ UNCHANGED plotVars /\ UNCHANGED appVars

NextParse == Parse

SpecSelect == InitSelect /\ [][NextParse]_vars
SpecDated == InitDated /\ [][NextParse]_vars

----------------------------------------------------------------------------
(* Properties of parse_streaming *)

\* the raw offers of the payload, and the returned list
Offs == IF data.kind = "none" THEN <<>> ELSE data.v
Out == results.list
Returned == results.called /\ ~results.raised

\* the offers of platform p that have a non-empty type
TypedOf(p) ==
    {i \in 1..Len(Offs) :
        /\ Offs[i].type # ""
        /\ (IF Offs[i].service.kind = "none" THEN "Unknown" ELSE Offs[i].service.v) = p}

PlatformNames == {"Netflix", "Hulu", "Unknown"}

\* the priority ranks as the specification states them
Rank(type) ==
    IF type = "subscription" THEN 0
    ELSE IF type = "free" THEN 1
    ELSE IF type = "ads" THEN 2
    ELSE IF type = "rent" THEN 3
    ELSE IF type = "buy" THEN 4
    ELSE IF type = "addon" THEN 5
    ELSE 99

\* the offers of platform p of the lowest rank
LowestOf(p) ==
    {i \in TypedOf(p) : \A j \in TypedOf(p) : Rank(Offs[i].type) <= Rank(Offs[j].type)}

\* C1: the returned list has exactly one entry for each platform that has an
\* offer with a non-empty type and no entry for any other platform; a payload
\* that is absent, empty or has only offers of empty type returns the empty
\* list and does not raise.
C1_OneEntryPerPlatform ==
    results.called =>
        /\ ~results.raised
        /\ \A p \in PlatformNames :
              Cardinality({k \in 1..Len(Out) : Out[k].platform = p})
                  = (IF TypedOf(p) = {} THEN 0 ELSE 1)
        /\ \A k \in 1..Len(Out) : Out[k].platform \in PlatformNames
        /\ ((\A p \in PlatformNames : TypedOf(p) = {}) => Out = <<>>)

\* a platform with two typed offers next to a platform with only an
\* empty-type offer: one entry in all
C1_Witness ==
    /\ results.called
    /\ Len(Out) = 1
    /\ Cardinality(TypedOf(Out[1].platform)) >= 2
    /\ \E i \in 1..Len(Offs) : Offs[i].type = "" /\ Offs[i].service # Offs[1].service

\* C2: the offer selected for a platform has the lowest priority rank among
\* the platform's offers with a non-empty type, whatever their order and
\* prices.
C2_LowestRankSelected ==
    Returned =>
        \A k \in 1..Len(Out) :
            /\ TypedOf(Out[k].platform) # {}
            /\ \A i \in TypedOf(Out[k].platform) : Rank(Out[k].type) <= Rank(Offs[i].type)

\* a priced rent offer arrives before an unpriced subscription offer of the
\* same platform, and subscription is selected
C2_Witness ==
    /\ Returned
    /\ Len(Offs) >= 2
    /\ Offs[1].service = Offs[2].service
    /\ Offs[1].type = "rent" /\ Offs[1].price.kind = "some"
    /\ Offs[2].type = "subscription" /\ Offs[2].price.kind = "none"
    /\ \E k \in 1..Len(Out) : Out[k].type = "subscription"

\* the dict after the first n offers
BestAfter(n) == Loop(Offs, n, now).best

\* C3: among a platform's offers of the lowest rank, a priced offer of the
\* minimum amount is selected whenever one of them has a price; an unpriced
\* offer is selected only if none of them has a price; and an unpriced offer
\* never replaces a priced offer of the same rank selected before it.
C3_LowestPriceSelected ==
    Returned =>
        /\ \A k \in 1..Len(Out) :
              LET L == LowestOf(Out[k].platform)
                  P == {i \in L : Offs[i].price.kind = "some"}
              IN IF P = {} THEN Out[k].price = ""
                 ELSE \E i \in P :
                        /\ \A j \in P : Offs[i].price.v.amount <= Offs[j].price.v.amount
                        /\ Out[k].price = price_formatted(Offs[i].price)
        /\ \A n \in 1..(Len(Offs) - 1) :
              LET b == BestAfter(n)
                  o == Offs[n + 1]
              IN \A i \in 1..Len(b) :
                    ( /\ o.type # ""
                      /\ PlatformOf(o) = b[i].platform
                      /\ Rank(o.type) = b[i].prio
                      /\ o.price.kind = "none"
                      /\ b[i].price_amount.kind = "some" )
                    => BestAfter(n + 1)[i] = b[i]

\* $3.99, then $1.99, then no price, all rent on one platform: $1.99 is kept
C3_Witness ==
    /\ Returned
    /\ Len(Offs) = 3
    /\ \A i \in 1..3 : Offs[i].type = "rent" /\ Offs[i].service = Some("Hulu")
    /\ Offs[1].price = Usd(399) /\ Offs[2].price = Usd(199) /\ Offs[3].price = None
    /\ Len(Out) = 1 /\ Out[1].price = "$1.99"

\* case-sensitive ordinal order of the platform names of the model
NameOrd(p) == CASE p = "Hulu" -> 1 [] p = "Netflix" -> 2 [] OTHER -> 3

\* C4: the returned list is ordered by ascending priority rank, and entries
\* of equal rank by ascending platform name.
C4_OrderedByRankThenName ==
    Returned =>
        \A k \in 1..Len(Out) : \A m \in 1..Len(Out) :
            k < m =>
                \/ Rank(Out[k].type) < Rank(Out[m].type)
                \/ /\ Rank(Out[k].type) = Rank(Out[m].type)
                   /\ NameOrd(Out[k].platform) < NameOrd(Out[m].platform)

\* the date of one raw offer as the specification states it
ClaimedDate(o) ==
    IF o.availableSince.kind = "some" /\ o.availableSince.v > now
    THEN format_date(o.availableSince.v)
    ELSE IF o.expiresOn.kind = "some" /\ o.expiresOn.v > now
         THEN "until " \o format_date(o.expiresOn.v)
         ELSE ""

\* C6: the date of an entry is the date of the raw offer selected for the
\* platform (the offer the entry's type and price come from): its future
\* availableSince, else "until" its future expiresOn, else empty.
C6_DateOfSelectedOffer ==
    Returned =>
        \A k \in 1..Len(Out) :
            \E i \in LowestOf(Out[k].platform) :
                /\ Out[k].type = Offs[i].type
                /\ Out[k].price = price_formatted(Offs[i].price)
                /\ Out[k].date = ClaimedDate(Offs[i])

\* an unpriced offer with a future availableSince is replaced by a priced one
\* that only has a future expiresOn; another entry shows availableSince
\* taking precedence
C6_Witness ==
    /\ Returned
    /\ now = 32
    /\ Len(Offs) = 3
    /\ Offs[1] = [service |-> Some("Netflix"), type |-> "rent", price |-> None,
                  availableSince |-> Some(33), expiresOn |-> None]
    /\ Offs[2] = [service |-> Some("Netflix"), type |-> "rent", price |-> Eur(199),
                  availableSince |-> None, expiresOn |-> Some(43)]
    /\ Offs[3].type = "bundle"
    /\ Len(Out) = 1
    /\ Out[1].price = "1.99 EUR"
    /\ Out[1].date = "until February 12th, 2026"

\* all orders of the raw offers
Perms(n) == {f \in [1..n -> 1..n] : \A a, b \in 1..n : a # b => f[a] # f[b]}
EntrySet(r) == {r.list[k] : k \in 1..Len(r.list)}

\* C9: the set of returned entries is the same for every order of the raw
\* offers.
C9_OrderIndependent ==
    Returned =>
        \A f \in Perms(Len(Offs)) :
            LET r == parse_streaming(Some([i \in 1..Len(Offs) |-> Offs[f[i]]]), now)
            IN ~r.raised /\ EntrySet(r) = EntrySet(results)

----------------------------------------------------------------------------
(* truncate_plot *)

\* str.replace("...", "."): the non-overlapping occurrences, left to right
RECURSIVE ReplaceEllipsis(_)
ReplaceEllipsis(s) ==
    IF s = <<>> THEN <<>>
    ELSE IF Len(s) >= 3 /\ s[1] = "." /\ s[2] = "." /\ s[3] = "."
         THEN <<".">> \o ReplaceEllipsis(SubSeq(s, 4, Len(s)))
         ELSE <<s[1]>> \o ReplaceEllipsis(Tail(s))

\* str.split(". "): the fragments of s, cur being the fragment under way
RECURSIVE Split(_, _)
Split(s, cur) ==
    IF s = <<>> THEN <<cur>>
    ELSE IF Len(s) >= 2 /\ s[1] = "." /\ s[2] = " "
         THEN <<cur>> \o Split(SubSeq(s, 3, Len(s)), <<>>)
         ELSE Split(Tail(s), Append(cur, s[1]))

\* ". ".join(sentences[:n])
RECURSIVE Join(_, _)
Join(sentences, n) ==
    IF n = 0 THEN <<>>
    ELSE IF n = 1 THEN sentences[1]
    ELSE Join(sentences, n - 1) \o <<".", " ">> \o sentences[n]

\* str.endswith(".")
EndsWithDot(s) == s # <<>> /\ s[Len(s)] = "."

NA == <<"N", "/", "A">>

\* truncate_plot(plot, max_sentences)
truncate_plot(text, n) ==
    IF text = <<>> \/ text = NA THEN text
    ELSE LET sentences == Split(ReplaceEllipsis(text), <<>>)
         IN IF Len(sentences) <= n THEN text
            ELSE LET t == Join(sentences, n)
                 IN IF ~EndsWithDot(t) THEN Append(t, ".") ELSE t

PlotChars == {"a", ".", " "}

Plots == {NA} \cup UNION {[1..n -> PlotChars] : n \in 0..MaxPlotLen}

InitPlot ==
    /\ plot \in Plots
    /\ max_sentences \in 1..MaxSentences
    /\ truncated = [called |-> FALSE, text |-> <<>>]
    /\ ParseIdle /\ AppIdle

\* one call of truncate_plot(plot, max_sentences)
Truncate ==
    /\ ~truncated.called
    /\ truncated' = [called |-> TRUE, text |-> truncate_plot(plot, max_sentences)]
    /\ UNCHANGED <<plot, max_sentences>>
    /\ UNCHANGED parseVars /\ UNCHANGED appVars

NextPlot == Truncate

SpecPlot == InitPlot /\ [][NextPlot]_vars

\* the fragments the specification counts: "..." read as ".", split on ". "
Fragments == Split(ReplaceEllipsis(plot), <<>>)

\* the number of "." the text ends with
RECURSIVE TrailingDots(_)
TrailingDots(s) ==
    IF s = <<>> \/ s[Len(s)] # "." THEN 0
    ELSE 1 + TrailingDots(SubSeq(s, 1, Len(s) - 1))

\* C8: a text of at most max_sentences fragments is returned unchanged;
\* otherwise the result is the first max_sentences fragments joined with
\* ". ", ending with exactly one ".".
C8_TruncateExactlyOneDot ==
    truncated.called =>
        IF Len(Fragments) <= max_sentences THEN truncated.text = plot
        ELSE /\ TrailingDots(truncated.text) = 1
             /\ \/ truncated.text = Join(Fragments, max_sentences)
                \/ truncated.text = Append(Join(Fragments, max_sentences), ".")

----------------------------------------------------------------------------
(* The Streamlit script: session state, search handler, detail view, grid *)

\* Python truthiness of an optional string
Truthy(x) == x.kind = "some" /\ x.v # ""

ImdbIds == {"tt1", "tt2"}

\* a movie of a search result: its "imdbID" key may be missing
Movies == [imdbID : {Some(id) : id \in ImdbIds} \cup {None}]

\* what fetch_search_results can give: a raise, or a list of movies
SearchOutcomes ==
    {[raised |-> TRUE, list |-> <<>>]} \cup
    {[raised |-> FALSE, list |-> l] : l \in UNION {[1..n -> Movies] : n \in 0..MaxResults}}

\* the text of the search box: blank, or a title
Queries == {"", "alien", "brazil"}

\* what fetch_movie_by_id(id) can give: a raise, Response "False", or a record
\* with or without its "imdbID"
MovieOutcomes(id) ==
    {[raised |-> TRUE, Response |-> "False", imdbID |-> None],
     [raised |-> FALSE, Response |-> "False", imdbID |-> None],
     [raised |-> FALSE, Response |-> "True", imdbID |-> None],
     [raised |-> FALSE, Response |-> "True", imdbID |-> Some(id)]}

GoodOffer == [service |-> Some("Netflix"), type |-> "subscription", price |-> None,
              availableSince |-> None, expiresOn |-> Some(43)]
BadDateOffer == [service |-> Some("Hulu"), type |-> "rent", price |-> Usd(399),
                 availableSince |-> Malformed, expiresOn |-> None]

\* what fetch_streaming can give: None (no key, or the request failed) or a
\* payload, whose records may carry a value that is no timestamp
StreamOutcomes ==
    {None, Some(<<>>), Some(<<GoodOffer>>), Some(<<GoodOffer, BadDateOffer>>)}

InitApp ==
    /\ search_results = <<>>
    /\ selected_id = None
    /\ search_query = ""
    /\ omdb_key \in BOOLEAN
    /\ pc = "idle"
    /\ omdb = None
    /\ streaming_data = None
    /\ stream_calls = 0
    /\ outcome = "none"
    /\ data = None /\ now = 32 /\ results = NotCalled
    /\ PlotIdle

\* the script below the search handler (lines 431-476) with selected_id = sel
\* and search_results = res: the detail view starts, or the grid is drawn
View(sel, res) ==
    /\ omdb' = None
    /\ streaming_data' = None
    /\ stream_calls' = 0
    /\ IF Truthy(sel)
       THEN pc' = "fetch_movie" /\ outcome' = "loading"
       ELSE pc' = "idle" /\ outcome' = (IF res # <<>> THEN "grid" ELSE "none")

\* a click on Search (lines 416-429), then the rest of the script
SearchClicked ==
    /\ pc = "idle"
    /\ \E movie_name \in Queries : \E r \in SearchOutcomes :
        /\ IF movie_name = "" \/ ~omdb_key
           THEN UNCHANGED <<search_results, selected_id, search_query>>
           ELSE IF r.raised
                THEN /\ search_results' = <<>>
                     /\ UNCHANGED <<selected_id, search_query>>
                ELSE /\ search_results' = r.list
                     /\ selected_id' = None
                     /\ search_query' = movie_name
        /\ View(selected_id', search_results')
    /\ UNCHANGED omdb_key
    /\ UNCHANGED parseVars /\ UNCHANGED plotVars

\* a click on a Select button of the grid (lines 472-474), then the rerun
SelectClicked ==
    /\ pc = "idle"
    /\ ~Truthy(selected_id)
    /\ \E i \in 1..Len(search_results) :
        /\ selected_id' = search_results[i].imdbID
        /\ View(selected_id', search_results)
    /\ UNCHANGED <<search_results, search_query, omdb_key>>
    /\ UNCHANGED parseVars /\ UNCHANGED plotVars

\* a click on "Back to results" (lines 432-435), then the rerun
BackClicked ==
    /\ pc = "idle"
    /\ Truthy(selected_id)
    /\ selected_id' = None
    /\ View(selected_id', search_results)
    /\ UNCHANGED <<search_results, search_query, omdb_key>>
    /\ UNCHANGED parseVars /\ UNCHANGED plotVars

\* line 440: omdb.get("Response") == "False"
NotFound(o) == o.Response = "False"

\* HasImdbId with the test `if imdb_id` lost
HasImdbIdAlways(o) == TRUE

\* line 444: fetch_streaming(imdb_id) if imdb_id else None
HasImdbId(o) == Truthy(o.imdbID)

\* detail view, lines 439-444: fetch_movie_by_id(selected_id) and what
\* follows up to the call of fetch_streaming
FetchMovieById ==
    /\ pc = "fetch_movie"
    /\ \E o \in MovieOutcomes(selected_id.v) :
        IF o.raised
        THEN /\ outcome' = "error"
             /\ pc' = "idle"
             /\ UNCHANGED omdb
        ELSE /\ omdb' = Some(o)
             /\ IF NotFound(o)
                THEN outcome' = "not_found" /\ pc' = "idle"
                ELSE /\ pc' = (IF HasImdbId(o) THEN "fetch_streaming" ELSE "render")
                     /\ UNCHANGED outcome
    /\ UNCHANGED <<search_results, selected_id, search_query, omdb_key,
                   streaming_data, stream_calls>>
    /\ UNCHANGED parseVars /\ UNCHANGED plotVars

\* detail view, line 444: the call of fetch_streaming(imdb_id) (lines 204-221)
FetchStreaming ==
    /\ pc = "fetch_streaming"
    /\ stream_calls' = stream_calls + 1
    /\ streaming_data' \in StreamOutcomes
    /\ pc' = "render"
    /\ UNCHANGED <<search_results, selected_id, search_query, omdb_key, omdb, outcome>>
    /\ UNCHANGED parseVars /\ UNCHANGED plotVars

\* detail view, lines 445-448: parse_streaming, the card, or the except branch
RenderDetail ==
    /\ pc = "render"
    /\ outcome' = (IF parse_streaming(streaming_data, now).raised THEN "error" ELSE "card")
    /\ pc' = "idle"
    /\ UNCHANGED <<search_results, selected_id, search_query, omdb_key,
                   omdb, streaming_data, stream_calls>>
    /\ UNCHANGED parseVars /\ UNCHANGED plotVars

NextApp ==
    \/ SearchClicked
    \/ SelectClicked
    \/ BackClicked
    \/ FetchMovieById
    \/ FetchStreaming
    \/ RenderDetail

SpecApp == InitApp /\ [][NextApp]_vars

\* C5: a record whose availableSince or expiresOn is no timestamp does not
\* abort the lookup: once the metadata record is fetched and found, the
\* detail view does not end in the error outcome.
C5_MalformedOfferNotFatal ==
    (pc = "idle" /\ outcome = "error") => omdb.kind = "none"

\* C7: in a run of the detail view fetch_streaming is called at most once,
\* and only after fetch_movie_by_id returned a found record that carries an
\* identifier.
C7_StreamingAfterMetadata ==
    /\ stream_calls <= 1
    /\ (pc = "fetch_streaming" \/ stream_calls > 0) =>
          /\ omdb.kind = "some"
          /\ ~omdb.v.raised
          /\ omdb.v.Response # "False"
          /\ omdb.v.imdbID.kind = "some"
          /\ omdb.v.imdbID.v # ""

\* a run that called fetch_streaming and drew the card
C7_Witness ==
    /\ pc = "idle"
    /\ outcome = "card"
    /\ stream_calls = 1
    /\ omdb.kind = "some"

\* C10: a set selected_id is the imdbID of an entry of search_results.
C10_SelectedInResults ==
    Truthy(selected_id) =>
        \E i \in 1..Len(search_results) : search_results[i].imdbID = selected_id

====
